---- MODULE Spec2Model ----
(***************************************************************************)
(* State-machine model of the virtual memory core of RustOS:               *)
(*   crate/memory/src/addr.rs        Page, PageRange                       *)
(*   crate/memory/src/memory_set.rs  MemoryArea, MemoryAttr, MemorySet     *)
(*   crate/memory/src/paging/mod.rs  PageTable / Entry interface           *)
(*   kernel/src/process/context.rs   Context::new_user, Context::fork      *)
(*                                                                         *)
(* The machine word is scaled down: usize ranges over 0 .. WordLimit-1     *)
(* with WordLimit = NumPages * PAGE_SIZE, so that the whole virtual and    *)
(* physical address space is NumPages pages.  Arithmetic that the source   *)
(* performs on usize is modelled with its overflow behaviour: the build    *)
(* either checks overflow (panic) or wraps (overflow_checks).              *)
(*                                                                         *)
(* Memory is observed at the byte offsets Offs of every physical frame.    *)
(* All copies in the source are bytewise, so the bytes at the observed     *)
(* offsets evolve exactly as they do in the program.                       *)
(***************************************************************************)
EXTENDS Integers, Sequences, FiniteSets, TLC

VARIABLES
    overflow_checks,  \* build profile: TRUE = arithmetic overflow panics, FALSE = wraps
    sets,             \* slot -> MemorySet {status, areas, page_table, token, kstack, from}
    free,             \* the frame allocator's free frames (physical addresses)
    ntables,          \* number of page tables handed out by InactivePageTable::new
    stacks,           \* kernel stacks handed out by alloc_stack and not returned
    nstacks,          \* number of kernel stacks handed out so far
    active,           \* token of the page table installed in the MMU (0 = boot table)
    mem,              \* physical memory, observed at PhysCells
    got,              \* slot -> frames alloc_frame returned to map since the last clear
    ret,              \* slot -> frames passed to dealloc_frame by the last clear
    nwrites,          \* number of user stores issued so far
    elf,              \* the image most recently handed to new_user
    arch,             \* per address space: the ArchContext of the Context that owns it
    panic,            \* the abort in progress, if any
    last              \* the operation that produced this state

vars == <<overflow_checks, sets, free, ntables, stacks, nstacks, active, mem,
          got, ret, nwrites, elf, arch, panic, last>>

----------------------------------------------------------------------------
(* Bounds and constants *)

PAGE_SIZE == 4096

\* pages in the (scaled) address space; WordLimit plays the role of 2^64
NumPages == 3

\* frames managed by the frame allocator: the top NFrames frames of memory
NFrames == 2

\* address-space slots (MemorySet objects that can be created in one run)
MaxSets == 2

\* areas one MemorySet may hold
MaxAreas == 2

\* user stores issued in one run
MaxWrites == 1

\* program headers of an executable image
MaxHeaders == 2

WordLimit == NumPages * PAGE_SIZE

HalfPage == PAGE_SIZE \div 2

\* byte offsets inside a page at which memory is observed
Offs == {0, HalfPage, PAGE_SIZE - 8, PAGE_SIZE - 4}

Pages == 0 .. (NumPages - 1)

Slots == 1 .. MaxSets

\* Option::None for Option<PhysAddr>
None == -1

\* frames owned by the frame allocator
Pool == {f * PAGE_SIZE : f \in (NumPages - NFrames) .. (NumPages - 1)}

\* physical memory outside the allocator (targets of identity / physical areas)
Window == {f * PAGE_SIZE : f \in 0 .. (NumPages - NFrames - 1)}

PhysCells == {f * PAGE_SIZE + o : f \in Pages, o \in Offs}

VirtCells == PhysCells

----------------------------------------------------------------------------
(* usize arithmetic *)

WrapSub(a, b) == (a - b + WordLimit) % WordLimit

WrapAdd(a, b) == (a + b) % WordLimit

----------------------------------------------------------------------------
(* addr.rs *)

start_address(number) == number * PAGE_SIZE

of_addr(addr) == addr \div PAGE_SIZE

\* the upper page taken from end instead of end - 1
range_of_inclusive(begin, end) ==
    [start |-> of_addr(begin), end |-> of_addr(end) + 1]

\* Page::range_of: the PageRange {start, end}
range_of(begin, end) ==
    [start |-> of_addr(begin), end |-> of_addr(WrapSub(end, 1)) + 1]

\* PageRange::next driven to exhaustion: the pages it yields, in order
RECURSIVE PageRange_iter(_)
PageRange_iter(r) ==
    IF r.start < r.end
    THEN <<r.start>> \o PageRange_iter([r EXCEPT !.start = r.start + 1])
    ELSE <<>>

----------------------------------------------------------------------------
(* memory_set.rs: MemoryAttr *)

MemoryAttr_default == [user |-> FALSE, readonly |-> FALSE, execute |-> FALSE, hide |-> FALSE]

user(attr) == [attr EXCEPT !.user = TRUE]

readonly(attr) == [attr EXCEPT !.readonly = TRUE]

execute(attr) == [attr EXCEPT !.execute = TRUE]

hide(attr) == [attr EXCEPT !.hide = TRUE]

\* page-table entry; updated counts the calls of Entry::update
NoEntry ==
    [mapped |-> FALSE, target |-> 0, present |-> FALSE, writable |-> FALSE,
     user |-> FALSE, execute |-> FALSE, updated |-> 0]

\* PageTable::map: a fresh entry for the page, pointing at target
pt_map(target) ==
    [mapped |-> TRUE, target |-> target, present |-> TRUE, writable |-> TRUE,
     user |-> FALSE, execute |-> FALSE, updated |-> 0]

\* an apply that never commits the entry
apply_without_update(attr, entry) ==
    LET e1 == IF attr.user THEN [entry EXCEPT !.user = TRUE] ELSE entry
        e2 == IF attr.readonly THEN [e1 EXCEPT !.writable = FALSE] ELSE e1
        e3 == IF attr.execute THEN [e2 EXCEPT !.execute = TRUE] ELSE e2
    IN IF attr.hide THEN [e3 EXCEPT !.present = FALSE] ELSE e3

\* MemoryAttr::apply
apply(attr, entry) ==
    LET e1 == IF attr.user THEN [entry EXCEPT !.user = TRUE] ELSE entry
        e2 == IF attr.readonly THEN [e1 EXCEPT !.writable = FALSE] ELSE e1
        e3 == IF attr.execute THEN [e2 EXCEPT !.execute = TRUE] ELSE e2
        e4 == IF attr.hide THEN [e3 EXCEPT !.present = FALSE] ELSE e3
    IN IF attr.user \/ attr.readonly \/ attr.execute \/ attr.hide
       THEN [e4 EXCEPT !.updated = e4.updated + 1]
       ELSE e4

----------------------------------------------------------------------------
(* memory_set.rs: MemoryArea *)

MemoryArea_new(start_addr, end_addr, flags, name) ==
    [start_addr |-> start_addr, end_addr |-> end_addr, phys_start_addr |-> None,
     flags |-> flags, name |-> name]

new_identity(start_addr, end_addr, flags, name) ==
    [start_addr |-> start_addr, end_addr |-> end_addr, phys_start_addr |-> start_addr,
     flags |-> flags, name |-> name]

new_physical(phys_start_addr, phys_end_addr, offset, flags, name) ==
    [start_addr |-> phys_start_addr + offset, end_addr |-> phys_end_addr + offset,
     phys_start_addr |-> phys_start_addr, flags |-> flags, name |-> name]

\* membership in the closed range [start, end]
contains_closed(area, addr) == addr >= area.start_addr /\ addr <= area.end_addr

contains(area, addr) == addr >= area.start_addr /\ addr < area.end_addr

\* overlap decided on the byte ranges instead of the covering page ranges
is_overlap_with_bytes(self, other) ==
    ~(self.end_addr <= other.start_addr \/ self.start_addr >= other.end_addr)

is_overlap_with(self, other) ==
    LET p0 == of_addr(self.start_addr)
        p1 == of_addr(WrapSub(self.end_addr, 1)) + 1
        p2 == of_addr(other.start_addr)
        p3 == of_addr(WrapSub(other.end_addr, 1)) + 1
    IN ~(p1 <= p2 \/ p0 >= p3)

\* `end_addr - 1` in is_overlap_with and range_of panics in a checked build
EndUnderflows(area) == overflow_checks /\ area.end_addr = 0

\* the loop of MemoryArea::map over the remaining pages; fs is what alloc_frame
\* will return, in order (None once it is exhausted)
RECURSIVE map_loop(_, _, _, _)
map_loop(area, pt, pages, fs) ==
    IF pages = <<>>
    THEN [pt |-> pt, fs |-> fs, outcome |-> "ok"]
    ELSE LET page == Head(pages)
             addr == start_address(page)
         IN IF area.phys_start_addr # None
            THEN IF overflow_checks /\ addr < area.start_addr
                 THEN [pt |-> pt, fs |-> fs, outcome |-> "overflow"]
                 ELSE LET target == WrapAdd(WrapSub(addr, area.start_addr), area.phys_start_addr)
                      IN map_loop(area, [pt EXCEPT ![page] = apply(area.flags, pt_map(target))],
                                  Tail(pages), fs)
            ELSE IF fs = <<>>
                 THEN [pt |-> pt, fs |-> fs, outcome |-> "oom"]
                 ELSE map_loop(area, [pt EXCEPT ![page] = apply(area.flags, pt_map(Head(fs)))],
                               Tail(pages), Tail(fs))

\* MemoryArea::map
map(area, pt, fs) ==
    IF EndUnderflows(area)
    THEN [pt |-> pt, fs |-> fs, outcome |-> "overflow"]
    ELSE map_loop(area, pt, PageRange_iter(range_of(area.start_addr, area.end_addr)), fs)

\* the loop of MemoryArea::unmap; freed is the sequence of frames passed to dealloc_frame
RECURSIVE unmap_loop(_, _, _, _)
unmap_loop(area, pt, pages, freed) ==
    IF pages = <<>>
    THEN [pt |-> pt, freed |-> freed]
    ELSE LET page == Head(pages)
         IN unmap_loop(area, [pt EXCEPT ![page] = NoEntry], Tail(pages),
                       IF area.phys_start_addr = None
                       THEN Append(freed, pt[page].target)
                       ELSE freed)

\* the frames are returned but the entries stay in the table
unmap_keeps_entries(area, pt, freed) ==
    [pt |-> pt,
     freed |-> unmap_loop(area, pt, PageRange_iter(range_of(area.start_addr, area.end_addr)),
                          freed).freed]

\* the entries are removed but no frame is returned
unmap_without_dealloc(area, pt, freed) ==
    [pt |-> unmap_loop(area, pt, PageRange_iter(range_of(area.start_addr, area.end_addr)),
                       freed).pt,
     freed |-> freed]

\* MemoryArea::unmap
unmap(area, pt, freed) ==
    unmap_loop(area, pt, PageRange_iter(range_of(area.start_addr, area.end_addr)), freed)

----------------------------------------------------------------------------
(* helpers on sequences and bags *)

Range(s) == {s[i] : i \in DOMAIN s}

\* what alloc_frame may return to the next n calls: up to n distinct frames of S,
\* in any order (fewer than n when S runs out, after which it returns None)
RECURSIVE Perms(_, _)
Perms(S, n) ==
    IF S = {} \/ n = 0 THEN {<<>>}
    ELSE UNION {{<<x>> \o p : p \in Perms(S \ {x}, n - 1)} : x \in S}

AllFrames == {f * PAGE_SIZE : f \in Pages}

\* the multiset of the elements of a sequence of frames
BagOf(s) == [f \in AllFrames |-> Cardinality({i \in DOMAIN s : s[i] = f})]

EmptyBag == [f \in AllFrames |-> 0]

BagSum(a, b) == [f \in AllFrames |-> a[f] + b[f]]

\* the frames alloc_frame handed out: the prefix of before that is gone in after
Taken(before, after) == SubSeq(before, 1, Len(before) - Len(after))

----------------------------------------------------------------------------
(* memory_set.rs: MemorySet *)

EmptyTable == [p \in Pages |-> NoEntry]

\* from: the slot a MemorySet was cloned from (0: built by new)
NoSet ==
    [status |-> "none", areas |-> <<>>, page_table |-> EmptyTable, token |-> 0, kstack |-> 0,
     from |-> 0]

\* MemorySet::new
MemorySet_new(token, kstack) ==
    [status |-> "live", areas |-> <<>>, page_table |-> EmptyTable,
     token |-> token, kstack |-> kstack, from |-> 0]

\* MemorySet::find_area: the first listed area containing addr (0 = None)
find_area(ms, addr) ==
    IF \E i \in DOMAIN ms.areas : contains(ms.areas[i], addr)
    THEN CHOOSE i \in DOMAIN ms.areas :
            /\ contains(ms.areas[i], addr)
            /\ \A j \in DOMAIN ms.areas : contains(ms.areas[j], addr) => i <= j
    ELSE 0

\* the area is mapped before the overlap assertion is evaluated
push_maps_before_assert(ms, area, fs) ==
    LET r == map(area, ms.page_table, fs)
    IN IF r.outcome # "ok"
       THEN [ms |-> [ms EXCEPT !.page_table = r.pt], fs |-> r.fs, outcome |-> r.outcome]
       ELSE IF \E i \in DOMAIN ms.areas : is_overlap_with(area, ms.areas[i])
       THEN [ms |-> [ms EXCEPT !.page_table = r.pt], fs |-> r.fs, outcome |-> "overlap"]
       ELSE [ms |-> [ms EXCEPT !.page_table = r.pt, !.areas = Append(ms.areas, area)],
             fs |-> r.fs, outcome |-> "ok"]

\* the calls of alloc_frame an area's map makes when none fails
Need(area) ==
    IF area.phys_start_addr # None \/ EndUnderflows(area) THEN 0
    ELSE Len(PageRange_iter(range_of(area.start_addr, area.end_addr)))

\* MemorySet::push
push(ms, area, fs) ==
    IF ms.areas # <<>> /\ EndUnderflows(area)
    THEN [ms |-> ms, fs |-> fs, outcome |-> "overflow"]
    ELSE IF \E i \in DOMAIN ms.areas : is_overlap_with(area, ms.areas[i])
    THEN [ms |-> ms, fs |-> fs, outcome |-> "overlap"]
    ELSE LET r == map(area, ms.page_table, fs)
         IN [ms |-> [ms EXCEPT !.page_table = r.pt,
                               !.areas = IF r.outcome = "ok" THEN Append(ms.areas, area)
                                         ELSE ms.areas],
             fs |-> r.fs, outcome |-> r.outcome]

\* the loop of MemorySet::clear over the listed areas
RECURSIVE clear_loop(_, _, _)
clear_loop(areas, pt, freed) ==
    IF areas = <<>>
    THEN [pt |-> pt, freed |-> freed]
    ELSE LET r == unmap(Head(areas), pt, freed)
         IN clear_loop(Tail(areas), r.pt, r.freed)

\* MemorySet::clear
clear(ms) ==
    LET r == clear_loop(ms.areas, ms.page_table, <<>>)
    IN [ms |-> [ms EXCEPT !.page_table = r.pt, !.areas = <<>>], freed |-> r.freed]

\* the loop of Clone::clone over the source's areas
RECURSIVE clone_loop(_, _, _)
clone_loop(areas, pt, fs) ==
    IF areas = <<>>
    THEN [pt |-> pt, fs |-> fs, outcome |-> "ok"]
    ELSE LET r == map(Head(areas), pt, fs)
         IN IF r.outcome = "ok"
            THEN clone_loop(Tail(areas), r.pt, r.fs)
            ELSE r

\* a clone that copies the source's table instead of re-mapping the areas
clone_shares_frames(ms, token, kstack, fs) ==
    [ms |-> [status |-> "live", areas |-> ms.areas, page_table |-> ms.page_table,
             token |-> token, kstack |-> kstack, from |-> 0],
     fs |-> fs, outcome |-> "ok"]

\* a clone that keeps the source's token
clone_keeps_token(ms, token, kstack, fs) ==
    LET r == clone_loop(ms.areas, EmptyTable, fs)
    IN [ms |-> [status |-> "live", areas |-> ms.areas, page_table |-> r.pt,
                token |-> ms.token, kstack |-> kstack, from |-> 0],
        fs |-> r.fs, outcome |-> r.outcome]

\* Clone for MemorySet
clone(ms, token, kstack, fs) ==
    LET r == clone_loop(ms.areas, EmptyTable, fs)
    IN [ms |-> [status |-> "live", areas |-> ms.areas, page_table |-> r.pt,
                token |-> token, kstack |-> kstack, from |-> 0],
        fs |-> r.fs, outcome |-> r.outcome]

----------------------------------------------------------------------------
(* loads and stores through a page table (paging/mod.rs: Entry::present,
   Entry::writable, PageTable::read, PageTable::write) *)

\* the physical address a virtual address translates to
phys(pt, v) == pt[of_addr(v)].target + (v % PAGE_SIZE)

\* "Will PageFault when try to access page where present=0"
Readable(pt, v) == pt[of_addr(v)].mapped /\ pt[of_addr(v)].present

\* "Will PageFault when try to write page where writable=0"
Writable(pt, v) == Readable(pt, v) /\ pt[of_addr(v)].writable

\* the observed addresses of the byte slice MemoryArea::as_slice / as_slice_mut
as_slice(area) == {v \in VirtCells : v >= area.start_addr /\ v < area.end_addr}

\* memory after the stores data[v] at the addresses v of cells through pt
store(m, pt, cells, data) ==
    [c \in PhysCells |->
        IF \E v \in cells : phys(pt, v) = c
        THEN data[CHOOSE v \in cells : phys(pt, v) = c]
        ELSE m[c]]

\* a switch that is never undone
with_stays(previous, token, completed) == token

\* MemorySet::with(f), seen from the MMU: the table `token` is installed while
\* f runs and the previous one is installed again when f has completed; a
\* fault inside f leaves `token` installed
with(previous, token, completed) == IF completed THEN previous ELSE token

----------------------------------------------------------------------------
(* context.rs: Context::fork *)

\* `datas`: for each area of the clone, Vec::from(area.as_slice()), read through
\* the table that is active when fork is called
snapshot(areas, active_pt, m) ==
    [i \in DOMAIN areas |-> [v \in as_slice(areas[i]) |-> m[phys(active_pt, v)]]]

\* the first area whose bytes cannot be read through pt (0: none)
FirstUnreadable(areas, pt) ==
    IF \E i \in DOMAIN areas : \E v \in as_slice(areas[i]) : ~Readable(pt, v)
    THEN CHOOSE i \in DOMAIN areas :
            /\ \E v \in as_slice(areas[i]) : ~Readable(pt, v)
            /\ \A j \in 1 .. (i - 1) : \A v \in as_slice(areas[j]) : Readable(pt, v)
    ELSE 0

\* the closure of fork, run inside memory_set.with: area i of the clone receives
\* datas[i]; a store to a page that is not present or not writable faults
RECURSIVE copy_loop(_, _, _, _, _)
copy_loop(areas, datas, i, pt, m) ==
    IF i > Len(areas)
    THEN [mem |-> m, outcome |-> "ok"]
    ELSE IF \E v \in as_slice(areas[i]) : ~Writable(pt, v)
    THEN [mem |-> m, outcome |-> "fault"]
    ELSE copy_loop(areas, datas, i + 1, pt, store(m, pt, as_slice(areas[i]), datas[i]))

\* a fork that clones the address space and copies nothing
fork_without_copy(ms, active_pt, m, token, kstack, fs) ==
    LET c == clone(ms, token, kstack, fs)
    IN [ms |-> c.ms, fs |-> c.fs, mem |-> m, outcome |-> c.outcome, inside |-> FALSE]

\* Context::fork on the address space ms while active_pt is installed: the new
\* MemorySet, the frames left, memory, and how it ended
fork(ms, active_pt, m, token, kstack, fs) ==
    LET c == clone(ms, token, kstack, fs)
    IN IF c.outcome # "ok"
       THEN [ms |-> c.ms, fs |-> c.fs, mem |-> m, outcome |-> c.outcome, inside |-> FALSE]
       ELSE IF FirstUnreadable(c.ms.areas, active_pt) # 0
       THEN [ms |-> c.ms, fs |-> c.fs, mem |-> m, outcome |-> "fault", inside |-> FALSE]
       ELSE LET w == copy_loop(c.ms.areas, snapshot(c.ms.areas, active_pt, m), 1,
                               c.ms.page_table, m)
            IN [ms |-> c.ms, fs |-> c.fs, mem |-> w.mem, outcome |-> w.outcome,
                inside |-> w.outcome # "ok"]

----------------------------------------------------------------------------
(* context.rs: the image loader Context::new_user *)

\* the user stack of the architecture (arch::consts, re-exported by consts.rs)
USER_STACK_SIZE == HalfPage

USER32_STACK_OFFSET == PAGE_SIZE + HalfPage

USER_STACK_OFFSET == 2 * PAGE_SIZE

\* the image file `data`: its length and its byte at index k
DataLen == HalfPage + 16

FileByte(k) == 1 + (k % 255)

NoElf == [is32 |-> FALSE, executable |-> FALSE, entry |-> 0, program |-> <<>>]

NoArch == [entry |-> 0, sp |-> 0, kstack_top |-> 0, is32 |-> FALSE, token |-> 0]

\* attributes that ignore the execute flag of the header
memory_attr_from_user_only(elf_flags) == user(MemoryAttr_default)

memory_attr_from(elf_flags) ==
    LET flags == user(MemoryAttr_default)
    IN IF elf_flags.execute THEN execute(flags) ELSE flags

\* the loop of memory_set_from over elf.program_iter()
RECURSIVE memory_set_from_loop(_, _, _)
memory_set_from_loop(phs, set, fs) ==
    IF phs = <<>>
    THEN [ms |-> set, fs |-> fs, outcome |-> "ok"]
    ELSE LET ph == Head(phs)
         IN IF ph.type # "Load"
            THEN memory_set_from_loop(Tail(phs), set, fs)
            ELSE LET r == push(set, MemoryArea_new(ph.virtual_addr,
                                                   ph.virtual_addr + ph.mem_size,
                                                   memory_attr_from(ph.flags), ""), fs)
                 IN IF r.outcome = "ok"
                    THEN memory_set_from_loop(Tail(phs), r.ms, r.fs)
                    ELSE r

memory_set_from(image, token, kstack, fs) ==
    memory_set_from_loop(image.program, MemorySet_new(token, kstack), fs)

\* the observed addresses of the slice [virt_addr, virt_addr + file_size)
target(ph) ==
    {v \in VirtCells : v >= ph.virtual_addr /\ v < ph.virtual_addr + ph.file_size}

\* the addresses of cells a copy in ascending order reaches before it faults
Reached(pt, cells) == {v \in cells : \A u \in cells : u <= v => Writable(pt, u)}

\* the loop of the closure new_user runs inside memory_set.with: `return` on a
\* header with file_size = 0 leaves the closure
RECURSIVE load_loop(_, _, _)
load_loop(phs, pt, m) ==
    IF phs = <<>>
    THEN [mem |-> m, outcome |-> "ok"]
    ELSE LET ph == Head(phs)
             bytes == [v \in target(ph) |-> FileByte(ph.offset + (v - ph.virtual_addr))]
         IN IF ph.file_size = 0
            THEN [mem |-> m, outcome |-> "return"]
            ELSE IF ph.offset + ph.file_size > DataLen
            THEN [mem |-> m, outcome |-> "slice"]
            ELSE IF \E v \in target(ph) : ~Writable(pt, v)
            THEN [mem |-> store(m, pt, Reached(pt, target(ph)), bytes), outcome |-> "fault"]
            ELSE load_loop(Tail(phs), pt, store(m, pt, target(ph), bytes))

\* the two 32-bit words argc and argv below user_stack_top
stack_words(user_stack_top, pt, m) ==
    LET words == {user_stack_top - 4, user_stack_top - 8}
    IN IF \E v \in words : ~Writable(pt, v)
       THEN [mem |-> store(m, pt, Reached(pt, words), [v \in words |-> 0]), outcome |-> "fault"]
       ELSE [mem |-> store(m, pt, words, [v \in words |-> 0]), outcome |-> "ok"]

\* the closure as the source has it
closure(image, user_stack_top, pt, m) ==
    LET c == load_loop(image.program, pt, m)
    IN IF c.outcome = "ok" /\ image.is32
       THEN stack_words(user_stack_top, pt, c.mem)
       ELSE c

\* Context::new_user(data): the MemorySet, the frames left, memory, the
\* ArchContext and how it ended
new_user(image, token, kstack, fs, m) ==
    LET user_stack_buttom == IF image.is32 THEN USER32_STACK_OFFSET ELSE USER_STACK_OFFSET
        user_stack_top == user_stack_buttom + USER_STACK_SIZE
        a == memory_set_from(image, token, kstack, fs)
        b == IF a.outcome = "ok"
             THEN push(a.ms, MemoryArea_new(user_stack_buttom, user_stack_top,
                                            user(MemoryAttr_default), "user_stack"), a.fs)
             ELSE a
        c == closure(image, user_stack_top, b.ms.page_table, m)
    IN IF ~image.executable
       THEN [ms |-> NoSet, fs |-> fs, mem |-> m, outcome |-> "not_executable",
             inside |-> FALSE, arch |-> NoArch]
       ELSE IF b.outcome # "ok"
       THEN [ms |-> b.ms, fs |-> b.fs, mem |-> m, outcome |-> b.outcome,
             inside |-> FALSE, arch |-> NoArch]
       ELSE [ms |-> b.ms, fs |-> b.fs, mem |-> c.mem,
             outcome |-> IF c.outcome = "return" THEN "ok" ELSE c.outcome,
             inside |-> c.outcome \in {"fault", "slice"},
             arch |-> [entry |-> image.entry, sp |-> user_stack_top - 8,
                       kstack_top |-> kstack, is32 |-> image.is32, token |-> token]]

----------------------------------------------------------------------------
(* inputs *)

NoArea == MemoryArea_new(0, 0, MemoryAttr_default, "none")

NoPanic == [kind |-> "none", id |-> 0]

\* addresses areas start and end at
AddrInputs == {p * PAGE_SIZE + o : p \in Pages, o \in {0, HalfPage}}

\* the physical targets an identity / physical area maps its pages to
Targets(area) ==
    LET pages == PageRange_iter(range_of(area.start_addr, area.end_addr))
    IN {WrapAdd(WrapSub(start_address(pages[i]), area.start_addr), area.phys_start_addr) :
            i \in DOMAIN pages}

\* identity and physical areas cover memory outside the frame allocator (in a
\* checked build an area ending at 0 never gets as far as a target)
InWindow(area) ==
    area.phys_start_addr # None => (EndUnderflows(area) \/ Targets(area) \subseteq Window)

\* lengths of the byte ranges of areas
LenInputs == {0, HalfPage, PAGE_SIZE}

\* MemoryArea::new(s, s + n, MemoryAttr::default().user(), "")
AnonAreas ==
    {MemoryArea_new(s, s + n, user(MemoryAttr_default), "") :
        s \in AddrInputs, n \in LenInputs}

\* MemoryArea::new_identity(s, s + n, MemoryAttr::default().readonly(), "id")
IdentityAreas ==
    {new_identity(s, s + n, readonly(MemoryAttr_default), "id") :
        s \in AddrInputs, n \in LenInputs}

\* MemoryArea::new_physical(s, s + n, PAGE_SIZE, MemoryAttr::default().hide(), "phys")
PhysicalAreas ==
    {new_physical(s, s + n, PAGE_SIZE, hide(MemoryAttr_default), "phys") :
        s \in AddrInputs, n \in LenInputs}

\* the areas the constructors accept (start <= end) without overflow in new_physical
AreaInputs ==
    {a \in AnonAreas \cup IdentityAreas \cup PhysicalAreas :
        /\ a.start_addr <= a.end_addr
        /\ a.end_addr < WordLimit}

----------------------------------------------------------------------------
(* the state machine *)

Init ==
    /\ overflow_checks \in BOOLEAN
    /\ sets = [id \in Slots |-> NoSet]
    /\ free = Pool
    /\ ntables = 0
    /\ stacks = {}
    /\ nstacks = 0
    /\ active = 0
    /\ mem = [c \in PhysCells |-> 0]
    /\ got = [id \in Slots |-> EmptyBag]
    /\ ret = [id \in Slots |-> EmptyBag]
    /\ nwrites = 0
    /\ elf = NoElf
    /\ arch = [id \in Slots |-> NoArch]
    /\ panic = NoPanic
    /\ last = [op |-> "init", id |-> 0, outcome |-> "ok"]

Running == panic.kind = "none"

\* the slot the next MemorySet is built in
NextSlot == CHOOSE id \in Slots : sets[id].status = "none" /\ \A j \in Slots : sets[j].status = "none" => id <= j

HasSlot == \E id \in Slots : sets[id].status = "none"

\* MemorySet::new()
New ==
    /\ Running
    /\ HasSlot
    /\ sets' = [sets EXCEPT ![NextSlot] = MemorySet_new(ntables + 1, nstacks + 1)]
    /\ ntables' = ntables + 1
    /\ nstacks' = nstacks + 1
    /\ stacks' = stacks \cup {nstacks + 1}
    /\ last' = [op |-> "new", id |-> NextSlot, outcome |-> "ok"]
    /\ UNCHANGED <<overflow_checks, elf, arch, nwrites, free, active, mem, got, ret, panic>>

\* MemorySet::push(area) on slot id
Push(id, area) ==
    /\ Running
    /\ sets[id].status = "live"
    /\ Len(sets[id].areas) < MaxAreas
    /\ InWindow(area)
    /\ \E fs \in Perms(free, Need(area)) :
        \E r \in {push(sets[id], area, fs)} :
           /\ last' = [op |-> "push", id |-> id, outcome |-> r.outcome]
           /\ free' = (free \ Range(fs)) \cup Range(r.fs)
           /\ sets' = [sets EXCEPT ![id] = r.ms]
           /\ got' = [got EXCEPT ![id] = BagSum(got[id], BagOf(Taken(fs, r.fs)))]
           /\ ret' = [ret EXCEPT ![id] = EmptyBag]
           /\ panic' = IF r.outcome = "ok" THEN NoPanic ELSE [kind |-> r.outcome, id |-> id]
    /\ UNCHANGED <<overflow_checks, elf, arch, nwrites, ntables, stacks, nstacks, active, mem>>

\* MemorySet::clear() on slot id
Clear(id) ==
    /\ Running
    /\ sets[id].status = "live"
    /\ LET r == clear(sets[id])
       IN /\ sets' = [sets EXCEPT ![id] = r.ms]
          /\ free' = free \cup Range(r.freed)
          /\ ret' = [ret EXCEPT ![id] = BagOf(r.freed)]
          /\ got' = [got EXCEPT ![id] = EmptyBag]
    /\ last' = [op |-> "clear", id |-> id, outcome |-> "ok"]
    /\ UNCHANGED <<overflow_checks, elf, arch, nwrites, ntables, stacks, nstacks, active, mem, panic>>

\* Drop for MemorySet on slot id: clear(), then the fields are dropped; Stack has
\* no destructor.  Runs in normal operation and while a panic unwinds.
Drop(id) ==
    /\ sets[id].status = "live"
    /\ LET r == clear(sets[id])
       IN /\ sets' = [sets EXCEPT ![id] = [r.ms EXCEPT !.status = "dropped"]]
          /\ free' = free \cup Range(r.freed)
          /\ ret' = [ret EXCEPT ![id] = BagOf(r.freed)]
          /\ got' = [got EXCEPT ![id] = EmptyBag]
    /\ last' = [op |-> "drop", id |-> id, outcome |-> "ok"]
    /\ UNCHANGED <<overflow_checks, elf, arch, nwrites, ntables, stacks, nstacks, active, mem, panic>>

\* sets[src].clone() into the next slot
Clone(src) ==
    /\ Running
    /\ sets[src].status = "live"
    /\ HasSlot
    /\ \E fs \in Perms(free, Cardinality(free)) :
        LET r == clone(sets[src], ntables + 1, nstacks + 1, fs)
            ok == r.outcome = "ok"
        IN /\ sets' = IF ok THEN [sets EXCEPT ![NextSlot] = [r.ms EXCEPT !.from = src]] ELSE sets
           /\ free' = Range(r.fs)
           /\ got' = IF ok THEN [got EXCEPT ![NextSlot] = BagOf(Taken(fs, r.fs))] ELSE got
           /\ nstacks' = IF ok THEN nstacks + 1 ELSE nstacks
           /\ stacks' = IF ok THEN stacks \cup {nstacks + 1} ELSE stacks
           /\ panic' = IF ok THEN NoPanic ELSE [kind |-> r.outcome, id |-> src]
           /\ last' = [op |-> "clone", id |-> src, outcome |-> r.outcome]
    /\ ntables' = ntables + 1
    /\ UNCHANGED <<overflow_checks, elf, arch, nwrites, active, mem, ret>>

\* the live address space whose table is installed (0: the boot table)
ActiveSet ==
    IF \E id \in Slots : sets[id].status = "live" /\ sets[id].token = active
    THEN CHOOSE id \in Slots : sets[id].status = "live" /\ sets[id].token = active
    ELSE 0

\* the page table installed in the MMU; the boot table maps no user page
ActiveTable == IF ActiveSet # 0 THEN sets[ActiveSet].page_table ELSE EmptyTable

\* MemorySet::activate() on slot id
Activate(id) ==
    /\ Running
    /\ sets[id].status = "live"
    /\ active # sets[id].token
    /\ active' = sets[id].token
    /\ last' = [op |-> "activate", id |-> id, outcome |-> "ok"]
    /\ UNCHANGED <<overflow_checks, elf, arch, nwrites, sets, free, ntables, stacks, nstacks, mem, got, ret, panic>>

\* the running thread stores byte b at address v of the active address space
Write(v, b) ==
    /\ Running
    /\ nwrites < MaxWrites
    /\ ActiveSet # 0
    /\ Writable(ActiveTable, v)
    /\ mem' = [mem EXCEPT ![phys(ActiveTable, v)] = b]
    /\ nwrites' = nwrites + 1
    /\ last' = [op |-> "write", id |-> v, outcome |-> "ok"]
    /\ UNCHANGED <<overflow_checks, elf, arch, sets, free, ntables, stacks, nstacks, active, got, ret, panic>>

\* Context::fork on slot src, into the next slot.  A fault inside the closure of
\* `with` leaves the new table installed.
Fork(src) ==
    /\ Running
    /\ sets[src].status = "live"
    /\ HasSlot
    /\ \E fs \in Perms(free, Cardinality(free)) :
        \E r \in {fork(sets[src], ActiveTable, mem, ntables + 1, nstacks + 1, fs)} :
           /\ last' = [op |-> "fork", id |-> src, outcome |-> r.outcome]
           /\ sets' = IF r.outcome = "oom" THEN sets
                      ELSE [sets EXCEPT ![NextSlot] = [r.ms EXCEPT !.from = src]]
           /\ free' = Range(r.fs)
           /\ got' = IF r.outcome = "oom" THEN got
                     ELSE [got EXCEPT ![NextSlot] = BagOf(Taken(fs, r.fs))]
           /\ nstacks' = IF r.outcome = "oom" THEN nstacks ELSE nstacks + 1
           /\ stacks' = IF r.outcome = "oom" THEN stacks ELSE stacks \cup {nstacks + 1}
           /\ mem' = r.mem
           /\ active' = with(active, ntables + 1, ~r.inside)
           /\ arch' = IF r.outcome = "ok"
                      THEN [arch EXCEPT ![NextSlot] = [arch[src] EXCEPT !.kstack_top = nstacks + 1,
                                                                        !.token = ntables + 1]]
                      ELSE arch
           /\ panic' = IF r.outcome = "ok" THEN NoPanic ELSE [kind |-> r.outcome, id |-> src]
    /\ ntables' = ntables + 1
    /\ UNCHANGED <<overflow_checks, elf, nwrites, ret>>

\* the calls of alloc_frame new_user makes for the image when none fails
RECURSIVE ImageNeed(_)
ImageNeed(phs) ==
    IF phs = <<>>
    THEN 1
    ELSE (IF Head(phs).type = "Load"
          THEN Need(MemoryArea_new(Head(phs).virtual_addr,
                                   Head(phs).virtual_addr + Head(phs).mem_size,
                                   memory_attr_from(Head(phs).flags), ""))
          ELSE 0) + ImageNeed(Tail(phs))

\* Context::new_user(data) on the image, into the next slot
NewUser(image) ==
    /\ Running
    /\ HasSlot
    /\ \E fs \in Perms(free, ImageNeed(image.program)) :
        \E r \in {new_user(image, ntables + 1, nstacks + 1, fs, mem)} :
           LET built == r.outcome # "not_executable"
           IN /\ sets' = IF built THEN [sets EXCEPT ![NextSlot] = r.ms] ELSE sets
              /\ free' = (free \ Range(fs)) \cup Range(r.fs)
              /\ got' = IF built THEN [got EXCEPT ![NextSlot] = BagOf(Taken(fs, r.fs))] ELSE got
              /\ ntables' = IF built THEN ntables + 1 ELSE ntables
              /\ nstacks' = IF built THEN nstacks + 1 ELSE nstacks
              /\ stacks' = IF built THEN stacks \cup {nstacks + 1} ELSE stacks
              /\ mem' = r.mem
              /\ active' = with(active, ntables + 1, ~r.inside)
              /\ arch' = [arch EXCEPT ![NextSlot] = r.arch]
              /\ panic' = IF r.outcome = "ok" THEN NoPanic
                          ELSE [kind |-> r.outcome, id |-> NextSlot]
              /\ last' = [op |-> "new_user", id |-> NextSlot, outcome |-> r.outcome]
    /\ elf' = image
    /\ UNCHANGED <<overflow_checks, nwrites, ret>>

\* one address space: new, then any sequence of push and clear, then drop
Next ==
    \/ (ntables = 0 /\ New)
    \/ \E id \in Slots, a \in AreaInputs : Push(id, a)
    \/ \E id \in Slots : Clear(id)
    \/ \E id \in Slots : Drop(id)

Spec == Init /\ [][Next]_vars

\* the areas that occupy at least one page
CloneAreas == {a \in AreaInputs : a.end_addr > a.start_addr \/ a.start_addr % PAGE_SIZE # 0}

\* an address space is built, then cloned; the clones and the source are dropped
\* in any order
NextClone ==
    \/ (ntables = 0 /\ New)
    \/ \E id \in Slots, a \in CloneAreas : (ntables = 1 /\ Push(id, a))
    \/ \E id \in Slots : Drop(id)
    \/ \E id \in Slots : Clone(id)

SpecClone == Init /\ [][NextClone]_vars

\* the areas of a forked process: user memory the allocator backs, a read-only
\* text area, a writable window onto device memory, and a hidden area
ForkAreas ==
    {MemoryArea_new(s, s + HalfPage, user(MemoryAttr_default), "data") :
        s \in {a \in AddrInputs : a < 2 * PAGE_SIZE}} \cup
    {MemoryArea_new(s, s + HalfPage, readonly(user(MemoryAttr_default)), "text") :
        s \in {a \in AddrInputs : a < PAGE_SIZE}} \cup
    {new_identity(s, s + HalfPage, user(MemoryAttr_default), "dev") :
        s \in {a \in AddrInputs : a < PAGE_SIZE}} \cup
    {new_physical(s, s + HalfPage, PAGE_SIZE, hide(MemoryAttr_default), "phys") :
        s \in {a \in AddrInputs : a < HalfPage}}

\* the byte the thread of an address space stores: 0xAA in an address space
\* built by new, 0xBB in a forked one
ByteOf(id) == IF sets[id].from = 0 THEN 170 ELSE 187

\* a process is built and runs, forks, and parent and child run on
NextFork ==
    \/ (ntables = 0 /\ New)
    \/ \E id \in Slots, a \in ForkAreas : (ntables = 1 /\ Push(id, a))
    \/ \E id \in Slots : Activate(id)
    \/ \E v \in AddrInputs : Write(v, ByteOf(ActiveSet))
    \/ \E id \in Slots : Fork(id)

SpecFork == Init /\ [][NextFork]_vars

\* the program headers of the images: LOAD segments (text at address 0, data at
\* either address) and headers of another type, with and without file bytes
Headers ==
    {ph \in {[type |-> "Load", virtual_addr |-> va, offset |-> IF n = 0 THEN 0 ELSE 16,
               file_size |-> n, mem_size |-> k, flags |-> [execute |-> x]] :
                 va \in {0, PAGE_SIZE}, n \in {0, HalfPage}, k \in {0, HalfPage},
                 x \in BOOLEAN} :
        (ph.flags.execute \/ ph.mem_size = 0) => ph.virtual_addr = 0} \cup
    {[type |-> "Other", virtual_addr |-> 0, offset |-> IF n = 0 THEN 0 ELSE 16,
      file_size |-> n, mem_size |-> 0, flags |-> [execute |-> FALSE]] :
        n \in {0, HalfPage}}

\* the images handed to new_user: executables of up to MaxHeaders headers, and
\* one image that is not an executable
Images ==
    {[is32 |-> b, executable |-> TRUE, entry |-> HalfPage, program |-> p] :
        b \in BOOLEAN, p \in UNION {[1 .. n -> Headers] : n \in 0 .. MaxHeaders}} \cup
    {[is32 |-> FALSE, executable |-> FALSE, entry |-> HalfPage, program |-> <<>>]}

\* a process is loaded from an image, and dropped
NextLoader ==
    \/ \E image \in Images : (ntables = 0 /\ NewUser(image))
    \/ \E id \in Slots : Drop(id)

\* the images of small processes: no header or one LOAD segment at address 0
ProcessImages ==
    {image \in Images :
        /\ Len(image.program) <= 1
        /\ \A i \in DOMAIN image.program :
              /\ image.program[i].type = "Load"
              /\ image.program[i].virtual_addr = 0
              /\ image.program[i].mem_size = HalfPage
              /\ ~image.program[i].flags.execute}

\* processes are loaded from images while the boot table or another process is
\* active, scheduled, run and forked
NextProcess ==
    \/ \E image \in ProcessImages : (ntables <= 1 /\ NewUser(image))
    \/ \E id \in Slots : Activate(id)
    \/ \E v \in AddrInputs : Write(v, ByteOf(ActiveSet))
    \/ \E id \in Slots : Fork(id)

SpecProcess == Init /\ [][NextProcess]_vars

\* every attribute record, and every state of a mapped entry not yet committed
Attrs == [user : BOOLEAN, readonly : BOOLEAN, execute : BOOLEAN, hide : BOOLEAN]

Entries ==
    [mapped : {TRUE}, target : AllFrames, present : BOOLEAN, writable : BOOLEAN,
     user : BOOLEAN, execute : BOOLEAN, updated : {0}]

\* an address space whose table holds one entry, for page 0, in any state
InitApply ==
    /\ overflow_checks \in BOOLEAN
    /\ \E e \in Entries :
          sets = [id \in Slots |->
                    IF id = 1
                    THEN [MemorySet_new(1, 1) EXCEPT !.page_table[0] = e]
                    ELSE NoSet]
    /\ free = Pool
    /\ ntables = 1
    /\ stacks = {1}
    /\ nstacks = 1
    /\ active = 0
    /\ mem = [c \in PhysCells |-> 0]
    /\ got = [id \in Slots |-> EmptyBag]
    /\ ret = [id \in Slots |-> EmptyBag]
    /\ nwrites = 0
    /\ elf = NoElf
    /\ arch = [id \in Slots |-> NoArch]
    /\ panic = NoPanic
    /\ last = [op |-> "init", id |-> 0, outcome |-> "ok"]

\* attr.apply(entry) on the entry of page 0, once
Apply(attr) ==
    /\ sets[1].page_table[0].updated = 0
    /\ last.op = "init"
    /\ sets' = [sets EXCEPT ![1].page_table[0] = apply(attr, @)]
    /\ last' = [op |-> "apply", id |-> 1, outcome |-> "ok"]
    /\ UNCHANGED <<overflow_checks, elf, arch, nwrites, free, ntables, stacks, nstacks,
                   active, mem, got, ret, panic>>

NextApply == \E attr \in Attrs : Apply(attr)

SpecApply == InitApply /\ [][NextApply]_vars

\* the byte an uninitialised frame may hold instead of 0
Junk == 255

\* physical memory before the loader runs is uninitialised: all 0 or all Junk
InitLoader ==
    /\ overflow_checks \in BOOLEAN
    /\ sets = [id \in Slots |-> NoSet]
    /\ free = Pool
    /\ ntables = 0
    /\ stacks = {}
    /\ nstacks = 0
    /\ active = 0
    /\ mem \in {[c \in PhysCells |-> 0], [c \in PhysCells |-> Junk]}
    /\ got = [id \in Slots |-> EmptyBag]
    /\ ret = [id \in Slots |-> EmptyBag]
    /\ nwrites = 0
    /\ elf = NoElf
    /\ arch = [id \in Slots |-> NoArch]
    /\ panic = NoPanic
    /\ last = [op |-> "init", id |-> 0, outcome |-> "ok"]

SpecLoader == InitLoader /\ [][NextLoader]_vars

----------------------------------------------------------------------------
(* vocabulary of the properties *)

\* the covering page range [Page::of(start), Page::of(end-1)+1) of a byte range
Cover(area) ==
    {p \in Pages : /\ area.start_addr \div PAGE_SIZE <= p
                   /\ p < ((area.end_addr - 1) \div PAGE_SIZE) + 1}

\* the pages with an entry in the table of an address space
MappedPages(ms) == {p \in Pages : ms.page_table[p].mapped}

\* the pages of all listed areas
ListedPages(ms) == UNION {Cover(ms.areas[i]) : i \in DOMAIN ms.areas}

\* the frames of the allocator's pool that a table points at
PoolFramesOf(ms) == {ms.page_table[p].target : p \in MappedPages(ms)} \cap Pool

BagSize(b) == IF \A f \in AllFrames : b[f] = 0 THEN 0
              ELSE Cardinality({f \in AllFrames : b[f] > 0})

Existing == {id \in Slots : sets[id].status # "none"}

Live == {id \in Slots : sets[id].status = "live"}

----------------------------------------------------------------------------
\* C1: in every reachable state, any two distinct entries of an address space's
\* area list have disjoint covering page ranges.
C1_NoTwoAreasOverlap ==
    \A id \in Existing :
        \A i, j \in DOMAIN sets[id].areas :
            i # j => Cover(sets[id].areas[i]) \cap Cover(sets[id].areas[j]) = {}

\* two areas with non-empty page ranges are listed side by side
C1_Witness ==
    \E id \in Live :
        /\ Len(sets[id].areas) = 2
        /\ Cover(sets[id].areas[1]) # {}
        /\ Cover(sets[id].areas[2]) # {}

\* C2: whenever no operation has aborted, the pages mapped in an address space's
\* table are exactly the pages of the covering ranges of its listed areas.
C2_MappedIsListed ==
    Running => \A id \in Existing : MappedPages(sets[id]) = ListedPages(sets[id])

\* an address space holding an anonymous and a directly mapped area
C2_Witness ==
    /\ Running
    /\ \E id \in Live :
        /\ BagSize(got[id]) > 0
        /\ Len(sets[id].areas) = 2
        /\ \E i \in 1 .. 2 : sets[id].areas[i].phys_start_addr # None
        /\ MappedPages(sets[id]) # {}
        /\ MappedPages(sets[id]) # Pages

\* C3: after a clear or drop that follows pushes which all returned, the frames
\* passed to dealloc_frame are, as a multiset, the frames alloc_frame returned to
\* those pushes, each once; the list and the table are empty, and the allocator
\* holds what it held before the pushes.
C3_FramesConserved ==
    [][(last'.op \in {"clear", "drop"} /\ panic.kind # "oom") =>
        /\ ret'[last'.id] = got[last'.id]
        /\ \A f \in AllFrames : ret'[last'.id][f] <= 1
        /\ sets'[last'.id].areas = <<>>
        /\ MappedPages(sets'[last'.id]) = {}
        /\ free' = Pool]_vars

\* a clear that returned two frames
C3_Witness ==
    /\ last.op = "clear"
    /\ Running
    /\ BagSize(ret[last.id]) = 2

\* C4 (as claimed): once an address space whose push ran out of frames has been
\* dropped, every frame of the pool is free or mapped by a live table.
C4_NoFrameLostAfterDrop ==
    (panic.kind = "oom" /\ sets[panic.id].status = "dropped") =>
        \A f \in Pool : f \in free \/ \E id \in Live : f \in PoolFramesOf(sets[id])

\* the covering range of a intersects that of an area listed in ms
HitsListed(ms, a) == \E i \in DOMAIN ms.areas : Cover(a) \cap Cover(ms.areas[i]) # {}

\* the areas whose push can have made the step: the one appended when the push
\* returned, any input when it aborted
PushedAreas ==
    IF last'.op = "push" /\ last'.outcome = "ok"
    THEN {sets'[last'.id].areas[Len(sets'[last'.id].areas)]}
    ELSE AreaInputs

\* C5 (as claimed): a push, returned or aborted, either appends the area with all
\* its pages mapped or leaves the list, the table and the allocator as they were.
C5_PushAllOrNothing ==
    [][\A id \in Slots, a \in PushedAreas :
        (last'.op = "push" /\ last'.id = id /\ Push(id, a)) =>
            \/ /\ sets'[id].areas = Append(sets[id].areas, a)
               /\ Cover(a) \subseteq MappedPages(sets'[id])
            \/ /\ sets'[id].areas = sets[id].areas
               /\ sets'[id].page_table = sets[id].page_table
               /\ free' = free]_vars

\* the areas push can be called with on slot id in this state
Pushable(id) ==
    IF Running /\ id \in Live /\ Len(sets[id].areas) < MaxAreas
    THEN {a \in AreaInputs : InWindow(a)}
    ELSE {}

\* a push that aborted on the overlap assertion, before any mapping: r is what
\* push(sets[id], a, fs) returns
AbortsUntouched(id, fs, r) == r.outcome = "overlap" /\ r.ms = sets[id] /\ r.fs = fs

\* C6 (as claimed): in every reachable state, a push whose covering page range
\* intersects a listed area's aborts on the overlap assertion with nothing
\* allocated, mapped or listed; a push whose covering page range (taken for an area
\* ending above address 0) is disjoint from every listed area's passes the assertion.
C6_DisjointPushPasses ==
    \A id \in Slots : \A a \in Pushable(id) : \A fs \in Perms(free, Need(a)) :
        \A r \in {push(sets[id], a, fs)} :
            /\ HitsListed(sets[id], a) => AbortsUntouched(id, fs, r)
            /\ (~HitsListed(sets[id], a) /\ a.end_addr > 0) => r.outcome # "overlap"

\* C6 (amended): in every reachable state, a push whose covering page range
\* intersects a listed area's aborts on the overlap assertion with nothing
\* allocated, mapped or listed; a push whose covering page range is disjoint from
\* every listed area's passes the assertion when neither its own range nor a
\* listed area's is empty, and if it returns the area is appended and its pages
\* are mapped.
C6_OverlapAborts ==
    \A id \in Slots : \A a \in Pushable(id) : \A fs \in Perms(free, Need(a)) :
        \A r \in {push(sets[id], a, fs)} :
            /\ HitsListed(sets[id], a) => AbortsUntouched(id, fs, r)
            /\ (/\ ~HitsListed(sets[id], a)
                /\ Cover(a) # {}
                /\ \A i \in DOMAIN sets[id].areas : Cover(sets[id].areas[i]) # {})
               => /\ r.outcome # "overlap"
                  /\ r.outcome = "ok" =>
                        /\ r.ms.areas = Append(sets[id].areas, a)
                        /\ Cover(a) \subseteq MappedPages(r.ms)

\* a push aborted on the overlap assertion while an area with frames was listed
C6_Witness ==
    /\ panic.kind = "overlap"
    /\ last.op = "push"
    /\ \E id \in Live : Len(sets[id].areas) = 1 /\ BagSize(got[id]) > 0

----------------------------------------------------------------------------
(* fork and clone *)

\* the frames backing the pages of area a in table pt
FramesOfArea(pt, a) == {pt[p].target : p \in {q \in Cover(a) : pt[q].mapped}}

\* all frames a table points at
FramesOf(pt) == {pt[p].target : p \in {q \in Pages : pt[q].mapped}}

\* the pairs <<parent, child>> of live address spaces related by fork or clone
Forked == {pc \in Live \X Live : sets[pc[2]].from = pc[1]}

\* C7: when fork is called on the active address space and returns, every byte
\* of every area of the source reads the same under the child's table as it
\* read under the source's table when fork was called.
C7_ForkCopiesContents ==
    [][(last'.op = "fork" /\ last'.outcome = "ok" /\ active = sets[last'.id].token) =>
          LET src == sets[last'.id]
              child == sets'[NextSlot]
          IN \A i \in DOMAIN src.areas : \A v \in as_slice(src.areas[i]) :
                /\ Readable(child.page_table, v)
                /\ mem'[phys(child.page_table, v)] = mem[phys(src.page_table, v)]]_vars

\* fork has returned a child of an address space holding two areas, one of them
\* carrying bytes its thread stored
C7_Witness ==
    /\ last.op = "fork" /\ last.outcome = "ok"
    /\ active = sets[last.id].token
    /\ Len(sets[last.id].areas) = 2
    /\ \E c \in Live : sets[c].from = last.id
    /\ \E i \in DOMAIN sets[last.id].areas : \E v \in as_slice(sets[last.id].areas[i]) :
          /\ sets[last.id].areas[i].phys_start_addr = None
          /\ mem[phys(sets[last.id].page_table, v)] # 0

\* parent and child map no common frame in the areas that satisfy Sel, and a
\* store by the child inside such an area leaves what the parent reads there
IndependentIn(Sel(_)) ==
    /\ \A pc \in Forked :
          LET p == sets[pc[1]]
              c == sets[pc[2]]
          IN \A i \in DOMAIN c.areas :
                Sel(c.areas[i]) =>
                    /\ FramesOfArea(c.page_table, c.areas[i]) \cap FramesOf(p.page_table) = {}
                    /\ i \in DOMAIN p.areas =>
                          FramesOfArea(p.page_table, p.areas[i]) \cap FramesOf(c.page_table) = {}
    /\ \A pc \in Forked :
          (last'.op = "write" /\ ActiveSet = pc[2]) =>
              \A i \in DOMAIN sets[pc[2]].areas :
                 (Sel(sets[pc[2]].areas[i]) /\ last'.id \in as_slice(sets[pc[2]].areas[i])) =>
                     mem'[phys(sets[pc[1]].page_table, last'.id)]
                        = mem[phys(sets[pc[1]].page_table, last'.id)]

AnyArea(a) == TRUE

IsAnonymous(a) == a.phys_start_addr = None

\* C8 as stated: after fork, in every area whatever its backing policy, parent
\* and child map no common frame and a store by the child is invisible to the
\* parent.
C8_IndependentFrames == [][IndependentIn(AnyArea)]_vars

\* C8: after fork, in every anonymous area, parent and child map no common
\* frame and a byte stored by the child at an address of the area leaves the
\* byte the parent reads at that address unchanged.
C8_AnonymousIndependent == [][IndependentIn(IsAnonymous)]_vars

\* the child of a fork is running and has stored a byte into an anonymous area
\* that the parent holds as well
C8_Witness ==
    /\ last.op = "write"
    /\ \E pc \in Forked :
          /\ ActiveSet = pc[2]
          /\ \E i \in DOMAIN sets[pc[2]].areas :
                /\ IsAnonymous(sets[pc[2]].areas[i])
                /\ last.id \in as_slice(sets[pc[2]].areas[i])
                /\ mem[phys(sets[pc[2]].page_table, last.id)]
                      # mem[phys(sets[pc[1]].page_table, last.id)]

\* C9: clone(x) has x's area list, another token and a new kernel stack; every
\* page of every area is mapped in its table, each anonymous page by a frame
\* taken from the allocator that x's table does not map; x is unchanged.
C9_CloneIsStructuralCopy ==
    [][(last'.op = "clone" /\ last'.outcome = "ok") =>
          LET x == sets[last'.id]
              c == sets'[NextSlot]
          IN /\ c.status = "live"
             /\ c.areas = x.areas
             /\ c.token # x.token
             /\ c.kstack # x.kstack /\ c.kstack \notin stacks /\ c.kstack \in stacks'
             /\ ListedPages(c) \subseteq MappedPages(c)
             /\ \A i \in DOMAIN c.areas :
                   IsAnonymous(c.areas[i]) =>
                       /\ FramesOfArea(c.page_table, c.areas[i]) \subseteq free
                       /\ FramesOfArea(c.page_table, c.areas[i]) \cap free' = {}
                       /\ FramesOfArea(c.page_table, c.areas[i]) \cap FramesOf(x.page_table) = {}
             /\ sets'[last'.id] = x
             /\ got'[last'.id] = got[last'.id]]_vars

\* clone has returned the copy of an address space holding an anonymous area
\* with frames and a second area
C9_Witness ==
    /\ last.op = "clone" /\ last.outcome = "ok"
    /\ Len(sets[last.id].areas) = 2
    /\ \E i \in DOMAIN sets[last.id].areas : IsAnonymous(sets[last.id].areas[i])
    /\ BagSize(got[last.id]) > 0
    /\ \E c \in Live : sets[c].from = last.id /\ BagSize(got[c]) > 0

----------------------------------------------------------------------------
(* the image loader *)

\* the file bytes of program header ph of the loaded image are in place in the
\* address space ms
Loaded(ph, ms) ==
    \A v \in target(ph) :
        /\ Readable(ms.page_table, v)
        /\ mem[phys(ms.page_table, v)] = FileByte(ph.offset + (v - ph.virtual_addr))

\* C10: after new_user returns, for every program header of the image with
\* file_size > 0, whatever its position and whatever precedes it, the bytes at
\* [virtual_addr, virtual_addr + file_size) of the new address space are the
\* file bytes buf[file_offset .. file_offset + file_size].
C10_EveryHeaderCopied ==
    (last.op = "new_user" /\ last.outcome = "ok") =>
        \A i \in DOMAIN elf.program :
            elf.program[i].file_size > 0 => Loaded(elf.program[i], sets[last.id])

\* user_stack_top of the loaded image
StackTop(image) ==
    (IF image.is32 THEN USER32_STACK_OFFSET ELSE USER_STACK_OFFSET) + USER_STACK_SIZE

\* C11: when new_user returns, a 32-bit image has the word 0 at user_stack_top - 4
\* and at user_stack_top - 8 of the new address space, whatever its program
\* headers; and for every image the returned stack pointer is user_stack_top - 8
\* and the returned entry address is the image's entry point.
C11_StackWordsAndRegisters ==
    (last.op = "new_user" /\ last.outcome = "ok") =>
        /\ elf.is32 =>
              \A v \in {StackTop(elf) - 4, StackTop(elf) - 8} :
                  /\ Readable(sets[last.id].page_table, v)
                  /\ mem[phys(sets[last.id].page_table, v)] = 0
        /\ arch[last.id].sp = StackTop(elf) - 8
        /\ arch[last.id].entry = elf.entry

\* the physical cells of the frames a table maps
CellsOf(pt) == {c \in PhysCells : (c - (c % PAGE_SIZE)) \in FramesOf(pt)}

IsLoad(ph) == ph.type = "Load"

\* the area the claim attributes to a LOAD header
SegmentArea(ph) ==
    [start_addr |-> ph.virtual_addr, end_addr |-> ph.virtual_addr + ph.mem_size,
     phys_start_addr |-> None,
     flags |-> [user |-> TRUE, readonly |-> FALSE, execute |-> ph.flags.execute,
                hide |-> FALSE],
     name |-> ""]

\* the user-stack area the claim attributes to an image
StackArea(image) ==
    [start_addr |-> StackTop(image) - USER_STACK_SIZE, end_addr |-> StackTop(image),
     phys_start_addr |-> None,
     flags |-> [user |-> TRUE, readonly |-> FALSE, execute |-> FALSE, hide |-> FALSE],
     name |-> "user_stack"]

----------------------------------------------------------------------------
(* find_area *)

\* the addresses find_area is asked about: the observed addresses and the ends
\* of the listed areas
Probes(ms) == VirtCells \cup {ms.areas[i].end_addr : i \in DOMAIN ms.areas}

\* find_area returns listed area i on all of its bytes, and At(i) holds of what
\* it returns for the area's end; no address lies in two listed areas
FindArea(At(_, _)) ==
    \A id \in Live :
        /\ \A i \in DOMAIN sets[id].areas :
              LET a == sets[id].areas[i]
              IN a.start_addr < a.end_addr =>
                    /\ \A v \in Probes(sets[id]) :
                          (a.start_addr <= v /\ v < a.end_addr) => find_area(sets[id], v) = i
                    /\ At(find_area(sets[id], a.end_addr), i)
        /\ \A v \in Probes(sets[id]) :
              Cardinality({i \in DOMAIN sets[id].areas : contains(sets[id].areas[i], v)}) <= 1

IsNone(found, i) == found = 0

IsNot(found, i) == found # i

\* C14 as stated: after push(a) with a.start < a.end, find_area(v) returns a for
\* every v in [a.start, a.end) and none for a.end, and at most one listed area
\* contains any address.
C14_FindAreaNoneAtEnd == FindArea(IsNone)

\* C14: after push(a) with a.start < a.end, find_area(v) returns a for every v
\* in [a.start, a.end) and does not return a for a.end (it returns none, or the
\* listed area that starts there), and at most one listed area contains any
\* address.
C14_FindAreaHalfOpen == FindArea(IsNot)

\* two areas have been pushed, the second starting at the end of the first
C14_Witness ==
    /\ last.op = "push" /\ last.outcome = "ok"
    /\ Len(sets[last.id].areas) = 2
    /\ sets[last.id].areas[1].start_addr < sets[last.id].areas[1].end_addr
    /\ sets[last.id].areas[2].start_addr < sets[last.id].areas[2].end_addr
    /\ sets[last.id].areas[2].start_addr = sets[last.id].areas[1].end_addr
    /\ find_area(sets[last.id], sets[last.id].areas[1].end_addr) = 2

----------------------------------------------------------------------------
(* identity and physical-offset areas *)

\* the identity and physical-offset areas with start < end that push accepts on
\* slot id in this state
DirectPushable(id) ==
    {a \in Pushable(id) :
        /\ a.phys_start_addr # None
        /\ a.start_addr < a.end_addr
        /\ ~HitsListed(sets[id], a)}

\* C15: pushing an identity or physical-offset area [s, e) with s < e, aligned or
\* not, takes no frame from the allocator and maps every page of its covering
\* range at page address v to v - start + phys_base, no step of that computation
\* leaving the machine word; clearing the address space then returns no frame
\* for that area.
C15_DirectAreasMapped ==
    \A id \in Slots : \A a \in DirectPushable(id) : \A fs \in Perms(free, 1) :
        \A r \in {push(sets[id], a, fs)} :
            /\ r.outcome = "ok"
            /\ r.fs = fs
            /\ \A p \in Cover(a) :
                  /\ r.ms.page_table[p].mapped
                  /\ p * PAGE_SIZE >= a.start_addr
                  /\ r.ms.page_table[p].target
                        = (p * PAGE_SIZE - a.start_addr) + a.phys_start_addr
            /\ clear(r.ms).freed = clear(sets[id]).freed

----------------------------------------------------------------------------
(* kernel stacks *)

\* C16: over any sequence of new, clone and drop, the kernel stacks obtained
\* from alloc_stack and not returned are exactly those of the live address
\* spaces: dropping an address space returns its kernel stack.
C16_StacksOfLiveSets ==
    Running =>
        /\ stacks = {sets[id].kstack : id \in Live}
        /\ Cardinality(stacks) = Cardinality(Live)

----------------------------------------------------------------------------
(* MemoryAttr::apply *)

\* apply committed the entry exactly when one of the four flags is set
CommitsIffFlag(attr, e, f) ==
    f.updated = (IF attr.user \/ attr.readonly \/ attr.execute \/ attr.hide
                 THEN e.updated + 1 ELSE e.updated)

\* C17 as stated: apply turns on no permission of the entry (user-accessible,
\* writable, executable, present) that was off, and commits the entry iff one of
\* the four flags is set.
C17_ApplyNeverWidens ==
    [][\A attr \in Attrs :
          Apply(attr) =>
              LET e == sets[1].page_table[0]
                  f == sets'[1].page_table[0]
              IN /\ f.user => e.user
                 /\ f.writable => e.writable
                 /\ f.execute => e.execute
                 /\ f.present => e.present
                 /\ CommitsIffFlag(attr, e, f)]_vars

\* C17: apply never turns on writable or present: it clears writable when
\* readonly is set and present when hide is set; it grants user access when user
\* is set and execution when execute is set, and changes nothing else; it
\* commits the entry iff one of the four flags is set.
C17_ApplyEffect ==
    [][\A attr \in Attrs :
          Apply(attr) =>
              LET e == sets[1].page_table[0]
                  f == sets'[1].page_table[0]
              IN /\ f.user = (e.user \/ attr.user)
                 /\ f.writable = (e.writable /\ ~attr.readonly)
                 /\ f.execute = (e.execute \/ attr.execute)
                 /\ f.present = (e.present /\ ~attr.hide)
                 /\ f.target = e.target /\ f.mapped = e.mapped
                 /\ CommitsIffFlag(attr, e, f)]_vars

\* apply has committed an entry that it made user-accessible, executable,
\* read-only and hidden
C17_Witness ==
    /\ last.op = "apply"
    /\ sets[1].page_table[0].updated = 1
    /\ sets[1].page_table[0].user /\ sets[1].page_table[0].execute
    /\ ~sets[1].page_table[0].writable /\ ~sets[1].page_table[0].present

----------------------------------------------------------------------------
(* empty areas *)

\* the areas with start = end that push can be called with on slot id in this
\* state and that pass its overlap assertion
EmptyPushable(id) ==
    {a \in Pushable(id) :
        /\ a.start_addr = a.end_addr
        /\ \A fs \in Perms(free, 1) : push(sets[id], a, fs).outcome # "overlap"}

\* C18: pushing an area with start = end, whatever the value of start (0 and
\* unaligned addresses included), succeeds, takes no frame from the allocator
\* and writes no page-table entry; unmapping it afterwards returns no frame.
C18_EmptyAreaVisitsNoPage ==
    \A id \in Slots : \A a \in EmptyPushable(id) : \A fs \in Perms(free, 1) :
        \A r \in {push(sets[id], a, fs)} :
            /\ r.outcome = "ok"
            /\ r.fs = fs
            /\ r.ms.page_table = sets[id].page_table
            /\ clear(r.ms).freed = clear(sets[id]).freed

----------------------------------------------------------------------------
(* the page range of an area and the order of allocation *)

\* the anonymous areas with start < end that push can be called with on slot id
\* in this state and that pass its overlap assertion
AnonPushable(id) ==
    {a \in Pushable(id) :
        /\ a.phys_start_addr = None
        /\ a.start_addr < a.end_addr
        /\ \A i \in DOMAIN sets[id].areas : ~is_overlap_with(a, sets[id].areas[i])}

\* ceil(addr / PAGE_SIZE)
CeilPage(addr) == (addr + PAGE_SIZE - 1) \div PAGE_SIZE

Min(a, b) == IF a < b THEN a ELSE b

\* C19: for a byte range with start < end, Page::range_of yields exactly
\* ceil(end/PAGE_SIZE) - floor(start/PAGE_SIZE) pages, ascending one by one from
\* Page::of(start) to Page::of(end-1), and nothing once exhausted; pushing an
\* anonymous area calls alloc_frame once per page in that order: the i-th page
\* is mapped to the i-th frame the allocator returns, until it returns none.
C19_RangeAscendingAllocInOrder ==
    \A id \in Slots : \A a \in AnonPushable(id) : \A fs \in Perms(free, NFrames) :
        LET range == range_of(a.start_addr, a.end_addr)
            pages == PageRange_iter(range)
            n == CeilPage(a.end_addr) - (a.start_addr \div PAGE_SIZE)
            r == push(sets[id], a, fs)
            k == Min(n, Len(fs))
        IN /\ Len(pages) = n
           /\ \A i \in 1..n : pages[i] = of_addr(a.start_addr) + (i - 1)
           /\ pages[n] = of_addr(a.end_addr - 1)
           /\ PageRange_iter([range EXCEPT !.start = range.end]) = <<>>
           /\ r.outcome = (IF Len(fs) >= n THEN "ok" ELSE "oom")
           /\ \A i \in 1..k : /\ r.ms.page_table[pages[i]].mapped
                              /\ r.ms.page_table[pages[i]].target = fs[i]
           /\ \A i \in (k + 1)..n : r.ms.page_table[pages[i]] = sets[id].page_table[pages[i]]
           /\ r.fs = SubSeq(fs, k + 1, Len(fs))

\* an anonymous area with an unaligned start that covers two pages has been
\* pushed, and the allocator returned the higher frame first
C19_Witness ==
    /\ last.op = "push" /\ last.outcome = "ok"
    /\ LET ms == sets[last.id]
           a == ms.areas[Len(ms.areas)]
           pages == PageRange_iter(range_of(a.start_addr, a.end_addr))
       IN /\ a.phys_start_addr = None
          /\ a.start_addr % PAGE_SIZE # 0
          /\ Len(pages) = 2
          /\ ms.page_table[pages[1]].mapped /\ ms.page_table[pages[2]].mapped
          /\ ms.page_table[pages[1]].target > ms.page_table[pages[2]].target

----------------------------------------------------------------------------
(* where the loader stores *)

\* the program headers whose bytes the closure copies: those with file_size > 0
\* that no header with file_size = 0 precedes
Copied(image) ==
    {i \in DOMAIN image.program : \A j \in 1 .. i : image.program[j].file_size > 0}

\* the pages of the area named name in ms
PagesNamed(ms, name) ==
    UNION {Cover(ms.areas[i]) : i \in {j \in DOMAIN ms.areas : ms.areas[j].name = name}}

\* C20: every store new_user issues inside the new address space lands on a
\* page of an area it pushed: the destination [virtual_addr, virtual_addr +
\* file_size) of every program header it copies, LOAD or not, lies within the
\* pages of a listed area and no store faults, and the two stack words of a
\* 32-bit image lie within the user-stack area.
C20_StoresLandInAreas ==
    (last.op = "new_user" /\ last.outcome \in {"ok", "fault"}) =>
        /\ last.outcome = "ok"
        /\ \A i \in Copied(elf) : \A v \in target(elf.program[i]) :
              of_addr(v) \in ListedPages(sets[last.id])
        /\ (elf.is32 /\ Copied(elf) = DOMAIN elf.program) =>
              \A v \in {StackTop(elf) - 4, StackTop(elf) - 8} :
                  of_addr(v) \in PagesNamed(sets[last.id], "user_stack")

----------------------------------------------------------------------------
(* clone when the allocator runs out *)

\* a machine whose frame allocator owns every frame of physical memory
InitOom ==
    /\ overflow_checks \in BOOLEAN
    /\ sets = [id \in Slots |-> NoSet]
    /\ free = AllFrames
    /\ ntables = 0
    /\ stacks = {}
    /\ nstacks = 0
    /\ active = 0
    /\ mem = [c \in PhysCells |-> 0]
    /\ got = [id \in Slots |-> EmptyBag]
    /\ ret = [id \in Slots |-> EmptyBag]
    /\ nwrites = 0
    /\ elf = NoElf
    /\ arch = [id \in Slots |-> NoArch]
    /\ panic = NoPanic
    /\ last = [op |-> "init", id |-> 0, outcome |-> "ok"]

\* the anonymous areas that occupy at least one page
OomAreas == {a \in CloneAreas : a.phys_start_addr = None}

\* an address space of anonymous areas is built, then cloned until the
\* allocator runs out; the address spaces are dropped in any order
NextCloneOom ==
    \/ (ntables = 0 /\ New)
    \/ \E id \in Slots, a \in OomAreas : (ntables = 1 /\ Push(id, a))
    \/ \E id \in Slots : Clone(id)
    \/ \E id \in Slots : Drop(id)

SpecCloneOom == InitOom /\ [][NextCloneOom]_vars

\* C21: when alloc_frame returns none while clone re-maps the source's areas,
\* the frames clone had taken for the new table are back in the allocator, and
\* the source address space (area list, mappings, frames) is as it was.
C21_CloneOomReturnsFrames ==
    [][(last'.op = "clone" /\ last'.outcome = "oom") =>
          /\ free' = free
          /\ sets'[last'.id] = sets[last'.id]]_vars

\* C21, the part about the source alone
C21_SourceUnchanged ==
    [][(last'.op = "clone" /\ last'.outcome = "oom") =>
          sets'[last'.id] = sets[last'.id]]_vars

====
